---- MODULE Spec2Model ----
(***************************************************************************)
(* A model of scripts/analysis_script.py: the three-step pipeline          *)
(*   download_csv -> build_database -> run_queries                         *)
(* over the three on-disk artefacts (dataset file, SQLite store, output    *)
(* directory).                                                             *)
(*                                                                         *)
(* Conventions of the model.                                               *)
(*   - Text is a sequence of one-character strings, so that str.split and  *)
(*     str.strip are computed character by character.                      *)
(*   - A nullable value is a sequence of length at most one: <<>> is the   *)
(*     missing value (an empty CSV field, NaN in the DataFrame, NULL in    *)
(*     SQL) and <<v>> is the value v.                                      *)
(*   - Rating is in tenths (80 is 8.0), Revenue in millions, an average    *)
(*     rounded to two decimals in hundredths (6667 is 66.67).              *)
(*   - A table of the store is [exists, rows]; a file of the output        *)
(*     directory likewise.                                                 *)
(*   - The movies table keeps the columns the modelled code reads: Rank,   *)
(*     Title, Year, Genre, Director, Rating, Revenue (Millions).           *)
(*   - Queries 1, 3, 7 and 8 are evaluated; of the other seven only the    *)
(*     three artefacts' existence is modelled (their .csv holds no rows).  *)
(***************************************************************************)
EXTENDS Integers, Sequences, FiniteSets, TLC

VARIABLES
    remote,     \* the body the fixed URL serves: the dataset's rows
    csv,        \* the dataset file csv_path
    db,         \* the store db_path: the four tables
    out,        \* the output directory: per query its .sql, .csv and .png
    pc,         \* where main() is: start, downloaded, built, done, failed
    gets,       \* HTTP GETs issued so far
    started,    \* history: the steps main() has called in this run, in order
    wrote,      \* history: the artefacts written in this run, <<query, kind>>
    failed,     \* history: the step (and query) that first raised in this run
    db0,        \* history: the store as the first run found it
    allOk,      \* history: no run so far has raised
    rerun,      \* history: main() has been invoked more than once
    firstOut    \* history: the .csv contents of the first complete run

vars == <<remote, csv, db, out, pc, gets, started, wrote, failed, db0,
          allOk, rerun, firstOut>>

-----------------------------------------------------------------------------
(* Bounds *)

MaxMovies == 3
MaxGets == 2

(* Program constants *)

NumQueries == 11

-----------------------------------------------------------------------------
(* Small helpers *)

Min(a, b) == IF a < b THEN a ELSE b

Last(s) == s[Len(s)]

Reverse(s) == [i \in 1..Len(s) |-> s[Len(s) + 1 - i]]

IsPrefix(s, t) == Len(s) <= Len(t) /\ SubSeq(t, 1, Len(s)) = s

RECURSIVE SumSeq(_)
SumSeq(s) == IF s = <<>> THEN 0 ELSE Head(s) + SumSeq(Tail(s))

Column(frame, name) == [i \in 1..Len(frame) |-> frame[i][name]]

-----------------------------------------------------------------------------
(* Datasets: the rows of the CSV body, before pandas parses them *)

RawMovie(i, g, d, r, v) ==
    [Rank |-> i, Title |-> <<"T", i>>, Year |-> 1999 + i, Genre |-> g,
     Director |-> d, Rating |-> r, Revenue |-> v]

Directors == {"X", "Y"}
Ratings == {70, 80}

\* "" (missing), "D, W", " D ,D" and "A,B,C,D,E,F"
GenreTexts ==
    { <<>>,
      <<"D", ",", " ", "W">>,
      <<" ", "D", " ", ",", "D">>,
      <<"A", ",", "B", ",", "C", ",", "D", ",", "E", ",", "F">> }

DefaultGenre == <<"D">>
DefaultRating(i) == 90 - 10 * i
DefaultRevenue(i) == 50 * i + i \div 3

\* The toy dataset of the specification's section 8, continued by plain rows.
ToyRow(i) ==
    CASE i = 1 -> RawMovie(1, <<"D", ",", " ", "W">>, "X", 80, <<50>>)
      [] i = 2 -> RawMovie(2, <<"D">>, "X", 70, <<>>)
      [] OTHER -> RawMovie(i, DefaultGenre, "Y", DefaultRating(i), <<DefaultRevenue(i)>>)

Lengths == 1..MaxMovies

SmallDatasets == { [i \in 1..n |-> ToyRow(i)] : n \in Lengths }

GenreDatasets ==
    UNION { { [i \in 1..n |-> RawMovie(i, f[i], "X", DefaultRating(i), <<DefaultRevenue(i)>>)]
              : f \in [1..n -> GenreTexts] } : n \in Lengths }

\* Each movie's director, and whether its revenue is known
CrewDatasets ==
    UNION { { [i \in 1..n |->
                 RawMovie(i, DefaultGenre, f[i][1], DefaultRating(i),
                          IF f[i][2] THEN <<DefaultRevenue(i)>> ELSE <<>>)]
              : f \in [1..n -> Directors \X BOOLEAN] } : n \in Lengths }

RatingDatasets ==
    UNION { { [i \in 1..n |-> RawMovie(i, DefaultGenre, "X", f[i], <<DefaultRevenue(i)>>)]
              : f \in [1..n -> Ratings] } : n \in Lengths }

DataDatasets == SmallDatasets \cup GenreDatasets \cup CrewDatasets \cup RatingDatasets

-----------------------------------------------------------------------------
(* Files *)

NoFile == [exists |-> FALSE, header |-> FALSE, rows |-> <<>>]
\* open(csv_path, "wb") has created the file and nothing was written
EmptyFile == [exists |-> TRUE, header |-> FALSE, rows |-> <<>>]
FullFile(body) == [exists |-> TRUE, header |-> TRUE, rows |-> body]

\* What a write that stops part-way can leave: nothing, or the header and a
\* proper, non-empty prefix of the rows.
Truncations(body) ==
    {EmptyFile} \cup { FullFile(SubSeq(body, 1, n)) : n \in 1..(Len(body) - 1) }

\* A download_csv that does not look for the file
FileExistsNever(f) == FALSE

\* csv_path.exists()
FileExists(f) == f.exists

-----------------------------------------------------------------------------
(* build_database: the pure part *)

\* pd.read_csv: an empty field is read as NaN
ReadCsv(f) ==
    [i \in 1..Len(f.rows) |->
        [f.rows[i] EXCEPT !.Genre = IF f.rows[i].Genre = <<>> THEN <<>>
                                    ELSE <<f.rows[i].Genre>>]]

\* str(x): the text itself, and "nan" for NaN
Str(x) == IF x = <<>> THEN <<"n", "a", "n">> ELSE x[1]

RECURSIVE SplitFrom(_, _, _)
SplitFrom(s, i, cur) ==
    IF i > Len(s) THEN <<cur>>
    ELSE IF s[i] = "," THEN <<cur>> \o SplitFrom(s, i + 1, <<>>)
    ELSE SplitFrom(s, i + 1, Append(cur, s[i]))

\* s.split(","): the pieces between the commas, empty ones included
Split(s) == SplitFrom(s, 1, <<>>)

RECURSIVE LStrip(_)
LStrip(s) == IF s # <<>> /\ Head(s) = " " THEN LStrip(Tail(s)) ELSE s

RECURSIVE RStrip(_)
RStrip(s) ==
    IF s # <<>> /\ s[Len(s)] = " " THEN RStrip(SubSeq(s, 1, Len(s) - 1)) ELSE s

\* g.strip()
Strip(s) == RStrip(LStrip(s))

\* genres = [g.strip() for g in str(row["Genre"]).split(",")]
RowGenres(row) ==
    LET pieces == Split(Str(row.Genre))
    IN  [k \in 1..Len(pieces) |-> Strip(pieces[k])]

RECURSIVE GenreRecords(_)
\* records: one {"Rank", "Genre"} per genre of each row, in row order
GenreRecords(movies) ==
    IF movies = <<>> THEN <<>>
    ELSE LET row == Head(movies)
             genres == RowGenres(row)
         IN  [k \in 1..Len(genres) |-> [Rank |-> row.Rank, Genre |-> genres[k]]]
             \o GenreRecords(Tail(movies))

RECURSIVE UniqueFrom(_, _)
UniqueFrom(s, seen) ==
    IF s = <<>> THEN <<>>
    ELSE IF Head(s) \in seen THEN UniqueFrom(Tail(s), seen)
    ELSE <<Head(s)>> \o UniqueFrom(Tail(s), seen \cup {Head(s)})

\* The column itself, duplicates kept
UniqueNoDedupe(s) == s

\* Series.unique(): the distinct values in order of first appearance
Unique(s) == UniqueFrom(s, {})

\* unique_directors, with director_id = index + 1
UniqueDirectors(movies) ==
    LET u == Unique(Column(movies, "Director"))
    IN  [i \in 1..Len(u) |-> [Director |-> u[i], director_id |-> i]]

RECURSIVE MatchesOf(_, _)
MatchesOf(l, right) ==
    IF right = <<>> THEN <<>>
    ELSE (IF Head(right).Director = l.Director
          THEN <<[Rank |-> l.Rank, Director |-> l.Director,
                  director_id |-> Head(right).director_id]>>
          ELSE <<>>) \o MatchesOf(l, Tail(right))

RECURSIVE Merge(_, _)
\* left.merge(right, on="Director", how="left"): per left row, in order, one
\* row per matching right row, and one row without director_id if none
Merge(left, right) ==
    IF left = <<>> THEN <<>>
    ELSE LET l == Head(left)
             m == MatchesOf(l, right)
         IN  (IF m = <<>>
              THEN <<[Rank |-> l.Rank, Director |-> l.Director, director_id |-> <<>>]>>
              ELSE m) \o Merge(Tail(left), right)

\* movies_dir[["Rank", "director_id"]]
MovieDirectors(movies) ==
    LET md == Merge(movies, UniqueDirectors(movies))
    IN  [i \in 1..Len(md) |-> [Rank |-> md[i].Rank, director_id |-> md[i].director_id]]

\* The four DataFrames build_database writes
Frames(movies) ==
    [movies |-> movies,
     movie_genres |-> GenreRecords(movies),
     directors |-> UniqueDirectors(movies),
     movie_directors |-> MovieDirectors(movies)]

-----------------------------------------------------------------------------
(* The store *)

TableNames == <<"movies", "movie_genres", "directors", "movie_directors">>

NoTable == [exists |-> FALSE, rows |-> <<>>]
Table(rows) == [exists |-> TRUE, rows |-> rows]

EmptyStore == [t \in {TableNames[i] : i \in 1..4} |-> NoTable]

\* to_sql with if_exists="append": nothing is dropped, rows are added
ToSqlAppend(old, frame, s) ==
    CASE s = 0 -> old
      [] s = 1 -> old
      [] s = 2 -> [exists |-> TRUE, rows |-> old.rows]
      [] OTHER -> [exists |-> TRUE, rows |-> old.rows \o frame]

\* DataFrame.to_sql(name, conn, if_exists="replace") on a sqlite3 connection,
\* after s of its three statements: DROP TABLE (if the table exists), CREATE
\* TABLE, and the INSERTs in one transaction (rolled back if one fails).
\* Python's sqlite3 opens no transaction for DROP and CREATE: each is durable
\* as soon as it has run.
ToSql(old, frame, s) ==
    CASE s = 0 -> old
      [] s = 1 -> NoTable
      [] s = 2 -> Table(<<>>)
      [] OTHER -> Table(frame)

BuildSteps == 3 * Len(TableNames)

\* The statements of the i-th to_sql done when p statements are done in all
StepsDone(i, p) == IF p <= 3 * (i - 1) THEN 0 ELSE Min(p - 3 * (i - 1), 3)

\* The store after the first p statements of build_database's four to_sql
DbAfter(d, frames, p) ==
    [t \in DOMAIN d |->
        LET i == CHOOSE j \in 1..4 : TableNames[j] = t
        IN  ToSql(d[t], frames[t], StepsDone(i, p))]

\* A store loaded from nothing
FreshStore(file) == [t \in DOMAIN EmptyStore |-> Table(Frames(ReadCsv(file))[t])]

-----------------------------------------------------------------------------
(* run_queries: the SQL the engine evaluates *)

\* The order in which the engine visits rows (or emits groups) is not fixed by
\* SQL; SQLite visits them in storage order or, with reverse_unordered_selects
\* or another plan, in the reverse order.
EngineOrders == {"fwd", "rev"}

Scan(rows, ord) == IF ord = "fwd" THEN rows ELSE Reverse(rows)

RECURSIVE InsertDesc(_, _, _)
InsertDesc(sorted, r, key) ==
    IF sorted = <<>> THEN <<r>>
    ELSE IF Head(sorted)[key] >= r[key]
         THEN <<Head(sorted)>> \o InsertDesc(Tail(sorted), r, key)
         ELSE <<r>> \o sorted

RECURSIVE OrderByDesc(_, _)
\* ORDER BY key DESC: rows with equal keys stay in the order they came in
OrderByDesc(rows, key) ==
    IF rows = <<>> THEN <<>>
    ELSE InsertDesc(OrderByDesc(SubSeq(rows, 1, Len(rows) - 1), key), Last(rows), key)

\* A query without its LIMIT
LimitNone(rows, n) == rows

\* LIMIT n
Limit(rows, n) == SubSeq(rows, 1, Min(n, Len(rows)))

\* GROUP BY key: the groups' keys, in the order the scan meets them
GroupKeys(rows, key) == UniqueFrom(Column(rows, key), {})

\* COUNT(*) of the group
GroupCount(rows, key, k) == Cardinality({i \in 1..Len(rows) : rows[i][key] = k})

\* ROUND(AVG(x), 2) of n > 0 non-negative values of sum s, in hundredths
RoundAvg(s, n) == (200 * s + n) \div (2 * n)

\* 01_top_10_highest_rated.sql
Query1(d, ord) ==
    LET rows == Scan(d.movies.rows, ord)
        sel == [i \in 1..Len(rows) |->
                  [Title |-> rows[i].Title, Year |-> rows[i].Year,
                   Rating |-> rows[i].Rating]]
    IN  Limit(OrderByDesc(sel, "Rating"), 10)

\* 03_movies_count_per_director.sql
Query3(d, ord) ==
    LET rows == Scan(d.movies.rows, ord)
        keys == GroupKeys(rows, "Director")
        grp == [i \in 1..Len(keys) |->
                  [Director |-> keys[i],
                   movie_count |-> GroupCount(rows, "Director", keys[i])]]
    IN  Limit(OrderByDesc(grp, "movie_count"), 10)

\* Query 7 without its WHERE: COUNT(*) counts the movies of unknown revenue,
\* AVG still skips them
Query7CountAll(d, ord) ==
    LET NotNull(r) == r.Revenue # <<>>
        Having(g) == g.movies_count >= 2
        rows == Scan(d.movies.rows, ord)
        keys == GroupKeys(SelectSeq(rows, NotNull), "Director")
        Revs(k) == LET Mine(r) == r.Director = k /\ r.Revenue # <<>>
                       mine == SelectSeq(rows, Mine)
                   IN  [i \in 1..Len(mine) |-> mine[i].Revenue[1]]
        grp == [i \in 1..Len(keys) |->
                  [Director |-> keys[i],
                   avg_revenue |-> RoundAvg(SumSeq(Revs(keys[i])), Len(Revs(keys[i]))),
                   movies_count |-> GroupCount(rows, "Director", keys[i])]]
    IN  Limit(OrderByDesc(SelectSeq(grp, Having), "avg_revenue"), 10)

\* 07_avg_revenue_per_director.sql
Query7(d, ord) ==
    LET NotNull(r) == r.Revenue # <<>>
        Having(g) == g.movies_count >= 2
        rows == SelectSeq(Scan(d.movies.rows, ord), NotNull)
        keys == GroupKeys(rows, "Director")
        Revs(k) == LET Mine(r) == r.Director = k
                       mine == SelectSeq(rows, Mine)
                   IN  [i \in 1..Len(mine) |-> mine[i].Revenue[1]]
        grp == [i \in 1..Len(keys) |->
                  [Director |-> keys[i],
                   avg_revenue |-> RoundAvg(SumSeq(Revs(keys[i])), Len(Revs(keys[i]))),
                   movies_count |-> GroupCount(rows, "Director", keys[i])]]
    IN  Limit(OrderByDesc(SelectSeq(grp, Having), "avg_revenue"), 10)

\* 08_top_5_genres_by_count.sql
Query8(d, ord) ==
    LET rows == Scan(d.movie_genres.rows, ord)
        keys == GroupKeys(rows, "Genre")
        grp == [i \in 1..Len(keys) |->
                  [Genre |-> keys[i],
                   movie_count |-> GroupCount(rows, "Genre", keys[i])]]
    IN  Limit(OrderByDesc(grp, "movie_count"), 5)

ModelledQueries == {1, 3, 7, 8}

\* pd.read_sql(sql, conn) for the k-th entry of queries
QueryResult(k, d, ords) ==
    CASE k = 1 -> Query1(d, ords[1])
      [] k = 3 -> Query3(d, ords[3])
      [] k = 7 -> Query7(d, ords[7])
      [] k = 8 -> Query8(d, ords[8])
      [] OTHER -> <<>>

\* The tables the k-th query reads
TablesOf(k) ==
    CASE k \in {1, 3, 4, 5, 6, 7, 10} -> {"movies"}
      [] k = 8 -> {"movie_genres"}
      [] OTHER -> {"movies", "movie_genres"}

\* The engine rejects a query on a table that does not exist
Runnable(k, d) == \A t \in TablesOf(k) : d[t].exists

-----------------------------------------------------------------------------
(* run_queries: the loop over the queries *)

Kinds == {"sql", "csv", "png"}

NoArtefacts ==
    [k \in 1..NumQueries |-> [sql |-> FALSE, csv |-> NoTable, png |-> FALSE]]

\* Where a query's iteration raises: writing the .sql, executing the query (or
\* writing the .csv), or rendering the .png
Stages == {"sql", "exec", "png"}
NoFailure == [q |-> 0, stage |-> "none"]
QueryFailures == [q : 1..NumQueries, stage : Stages]

\* What the k-th iteration has written when it raises at f.stage, or all three
Written(k, f) ==
    IF f.q # k THEN Kinds
    ELSE CASE f.stage = "sql" -> {}
           [] f.stage = "exec" -> {"sql"}
           [] OTHER -> {"sql", "csv"}

RECURSIVE QueryLoop(_, _, _, _, _, _)
\* for fname, sql in queries.items(): ... ; an exception leaves the loop
QueryLoop(k, o, w, f, ords, d) ==
    IF k > NumQueries THEN [out |-> o, wrote |-> w]
    ELSE LET kinds == Written(k, f)
             o2 == [o EXCEPT ![k] =
                      [sql |-> @.sql \/ "sql" \in kinds,
                       csv |-> IF "csv" \in kinds THEN Table(QueryResult(k, d, ords))
                               ELSE @.csv,
                       png |-> @.png \/ "png" \in kinds]]
             w2 == w \cup {<<k, kind>> : kind \in kinds}
         IN  IF f.q = k THEN [out |-> o2, wrote |-> w2]
             ELSE QueryLoop(k + 1, o2, w2, f, ords, d)

\* The .csv files of the output directory
CsvOf(o) == [k \in 1..NumQueries |-> o[k].csv]

-----------------------------------------------------------------------------
(* main: the three steps *)

StepOrder == <<"download_csv", "build_database", "run_queries">>

NoFail == [step |-> "none", q |-> 0]

\* A main() that catches a step's exception and goes on
OnErrorSwallow(next) == next

\* main() catches nothing: an exception of a step ends the run
OnError(next) == "failed"

Outcomes == {"ok", "urlopen_fail", "read_fail", "write_fail"}

\* pd.read_csv raises on a missing file and on a file of zero bytes
Loadable(f) == f.exists /\ f.header

StartRun ==
    /\ pc \in {"done", "failed"}
    /\ pc' = "start"
    /\ started' = <<>>
    /\ wrote' = {}
    /\ failed' = NoFail
    /\ rerun' = TRUE
    /\ UNCHANGED <<remote, csv, db, out, gets, db0, allOk, firstOut>>

\* download_csv(csv_path), ending as o; t is what a failed write leaves
download_csv(o, t) ==
    /\ pc = "start"
    /\ IF FileExists(csv)
       THEN /\ o = "ok"
            /\ UNCHANGED <<csv, gets>>
       ELSE /\ gets < MaxGets
            /\ gets' = gets + 1
            /\ csv' = CASE o = "ok" -> FullFile(remote)
                        [] o = "urlopen_fail" -> csv
                        [] o = "read_fail" -> EmptyFile
                        [] OTHER -> t
    /\ pc' = IF o = "ok" THEN "downloaded" ELSE OnError("downloaded")
    /\ started' = Append(started, "download_csv")
    /\ failed' = IF o = "ok" \/ failed # NoFail THEN failed ELSE [step |-> "download_csv", q |-> 0]
    /\ allOk' = (allOk /\ o = "ok")
    /\ UNCHANGED <<remote, db, out, wrote, db0, rerun, firstOut>>

\* build_database(csv_path, db_path), p of its BuildSteps statements done
build_database(p) ==
    /\ pc = "downloaded"
    /\ ~Loadable(csv) => p = 0
    /\ db' = IF Loadable(csv) THEN DbAfter(db, Frames(ReadCsv(csv)), p) ELSE db
    /\ pc' = IF p = BuildSteps THEN "built" ELSE OnError("built")
    /\ started' = Append(started, "build_database")
    /\ failed' = IF p = BuildSteps \/ failed # NoFail THEN failed
                 ELSE [step |-> "build_database", q |-> 0]
    /\ allOk' = (allOk /\ p = BuildSteps)
    /\ UNCHANGED <<remote, csv, out, gets, wrote, db0, rerun, firstOut>>

\* run_queries(db_path, output_dir), raising at f (or not), the engine
\* visiting rows in the orders ords
run_queries(f, ords) ==
    /\ pc = "built"
    /\ \A k \in 1..NumQueries :
          (f.q = 0 \/ k < f.q \/ (k = f.q /\ f.stage = "png")) => Runnable(k, db)
    /\ LET r == QueryLoop(1, out, {}, f, ords, db)
       IN  /\ out' = r.out
           /\ wrote' = r.wrote
           /\ firstOut' = IF f = NoFailure /\ firstOut = <<>>
                          THEN <<CsvOf(r.out)>> ELSE firstOut
    /\ pc' = IF f = NoFailure THEN "done" ELSE OnError("done")
    /\ started' = Append(started, "run_queries")
    /\ failed' = IF f = NoFailure \/ failed # NoFail THEN failed
                 ELSE [step |-> "run_queries", q |-> f.q]
    /\ allOk' = (allOk /\ f = NoFailure)
    /\ UNCHANGED <<remote, csv, db, gets, db0, rerun>>

-----------------------------------------------------------------------------
(* Specifications *)

InitCommon ==
    /\ csv = NoFile
    /\ out = NoArtefacts
    /\ pc = "start"
    /\ gets = 0
    /\ started = <<>>
    /\ wrote = {}
    /\ failed = NoFail
    /\ db0 = db
    /\ allOk = TRUE
    /\ rerun = FALSE
    /\ firstOut = <<>>

AllFwd == [k \in ModelledQueries |-> "fwd"]

\* The pipeline with the failures of the Acquirer, of the Loader before it
\* touches the store, and of the Reporter, on a new store
Init ==
    /\ remote \in SmallDatasets
    /\ db = EmptyStore
    /\ InitCommon

Next ==
    \/ StartRun
    \/ \E o \in Outcomes, t \in Truncations(remote) : download_csv(o, t)
    \/ \E p \in {0, BuildSteps} : build_database(p)
    \/ \E f \in QueryFailures \cup {NoFailure} : run_queries(f, AllFwd)

Spec == Init /\ [][Next]_vars

\* The Loader failing after any of its statements, on a store that is new or
\* holds an earlier load
InitStore ==
    /\ remote \in SmallDatasets
    /\ db \in {EmptyStore} \cup {FreshStore(FullFile(b)) : b \in SmallDatasets}
    /\ InitCommon

NextStore ==
    \/ StartRun
    \/ download_csv("ok", EmptyFile)
    \/ \E p \in 0..BuildSteps : build_database(p)
    \/ run_queries(NoFailure, AllFwd)

SpecStore == InitStore /\ [][NextStore]_vars

\* The pipeline when nothing fails, over the datasets and the engine's orders
InitData ==
    /\ remote \in DataDatasets
    /\ db = EmptyStore
    /\ InitCommon

NextData ==
    \/ StartRun
    \/ download_csv("ok", EmptyFile)
    \/ build_database(BuildSteps)
    \/ \E ords \in [ModelledQueries -> EngineOrders] : run_queries(NoFailure, ords)

SpecData == InitData /\ [][NextData]_vars

-----------------------------------------------------------------------------
(* Claims *)

AllArtefacts == (1..NumQueries) \X Kinds

\* The store holds a complete load (the last build_database returned)
Loaded == pc \in {"built", "done"}

\* C1: the step a download_csv call takes: with the file present, no GET and
\* the file as it was; with the file absent, one GET, and on return the file
\* holds the whole body.
C1_AcquirerStep ==
    (pc = "start" /\ pc' # "start") =>
        IF csv.exists
        THEN gets' = gets /\ csv' = csv /\ pc' = "downloaded"
        ELSE gets' = gets + 1 /\ (pc' = "downloaded" => csv' = FullFile(remote))

\* C1: download_csv issues no GET and leaves the file alone when the file
\* exists, issues exactly one GET and writes the whole body when it is absent;
\* so as long as every run has succeeded at most one GET was ever issued.
C1_Acquirer == [](allOk => gets <= 1) /\ [][C1_AcquirerStep]_vars

\* A second successful run has skipped the download: still one GET.
C1_Witness == rerun /\ allOk /\ pc = "downloaded" /\ gets = 1 /\ csv = FullFile(remote)

\* C2: the steps run in the order download_csv, build_database, run_queries,
\* each at most once per run; once a step has raised no later step is called;
\* the artefacts written in a run are those of the queries in their order up
\* to the one that raised, and none of a later query.
C2_FailFast ==
    /\ IsPrefix(started, StepOrder)
    /\ failed # NoFail => (pc = "failed" /\ started # <<>> /\ Last(started) = failed.step)
    /\ pc = "done" => (failed = NoFail /\ started = StepOrder /\ wrote = AllArtefacts)
    /\ \A a \in wrote :
          /\ started = StepOrder
          /\ failed # NoFail => (failed.step = "run_queries" /\ a[1] <= failed.q)
          /\ \A j \in 1..(a[1] - 1) : \A kind \in Kinds : <<j, kind>> \in wrote
          /\ a[2] = "csv" => <<a[1], "sql">> \in wrote
          /\ a[2] = "png" => <<a[1], "csv">> \in wrote
    /\ failed.step = "run_queries" => <<failed.q, "png">> \notin wrote

\* Query 4 raised in a run after a complete one: queries 1 to 3 were written
\* again, query 5 and later were not, their files are the earlier run's.
C2_Witness ==
    /\ pc = "failed"
    /\ failed = [step |-> "run_queries", q |-> 4]
    /\ <<3, "png">> \in wrote
    /\ <<4, "sql">> \in wrote
    /\ <<5, "sql">> \notin wrote
    /\ out[NumQueries].png

\* C3: a step of the program leaves each table with its old contents or with
\* the complete contents of the dataset being loaded.
C3_TableStep ==
    \A t \in DOMAIN db :
        \/ db'[t] = db[t]
        \/ Loadable(csv) /\ db'[t] = FreshStore(csv)[t]

\* C3: the replacement of each table is atomic, also when the Loader fails.
C3_AtomicReplace == [][C3_TableStep]_vars

\* C4: every complete run leaves the same .csv files as the first one.
C4_Deterministic ==
    (pc = "done" /\ firstOut # <<>>) => CsvOf(out) = firstOut[1]

\* C5: after build_database the four tables are what a load of the dataset
\* file into an empty store gives, whatever the store held before.
C5_ReplaceNotAppend == Loaded => db = FreshStore(csv)

\* A second load, on a store that first held another dataset's tables.
C5_Witness ==
    /\ pc = "built"
    /\ rerun
    /\ db0["movies"].exists
    /\ Len(db0["movies"].rows) > Len(db["movies"].rows)

RECURSIVE ClaimedGenreRows(_)
\* One (Rank, trimmed token) per comma-separated token of each Genre field
ClaimedGenreRows(raw) ==
    IF raw = <<>> THEN <<>>
    ELSE LET r == Head(raw)
             tokens == Split(r.Genre)
         IN  [k \in 1..Len(tokens) |-> [Rank |-> r.Rank, Genre |-> Strip(tokens[k])]]
             \o ClaimedGenreRows(Tail(raw))

\* C6: movie_genres has one (Rank, Genre) row per comma-separated token of each
\* movie's Genre field, trimmed; as many rows as there are tokens; and every
\* Rank in it is a movie's.
C6_GenreRows ==
    Loaded =>
        LET mg == db["movie_genres"].rows
            mv == db["movies"].rows
        IN  /\ Len(mg) = SumSeq([i \in 1..Len(csv.rows) |-> Len(Split(csv.rows[i].Genre))])
            /\ mg = ClaimedGenreRows(csv.rows)
            /\ \A i \in 1..Len(mg) : \E j \in 1..Len(mv) : mv[j].Rank = mg[i].Rank

FirstIndex(s, x) == CHOOSE i \in 1..Len(s) : s[i] = x /\ \A j \in 1..(i - 1) : s[j] # x

\* C7: directors has one row per distinct director name, with ids 1..D in the
\* order the names first appear in movies; movie_directors maps each movie to
\* the id of its director; every id is used.
C7_Directors ==
    Loaded =>
        LET mv == db["movies"].rows
            dr == db["directors"].rows
            md == db["movie_directors"].rows
            names == Column(mv, "Director")
        IN  /\ Len(dr) = Cardinality({names[i] : i \in 1..Len(names)})
            /\ \A i \in 1..Len(dr) : dr[i].director_id = i
            /\ \A i \in 1..Len(dr) : \E j \in 1..Len(names) : names[j] = dr[i].Director
            /\ \A i, j \in 1..Len(dr) :
                  i < j => FirstIndex(names, dr[i].Director) < FirstIndex(names, dr[j].Director)
            /\ Len(md) = Len(mv)
            /\ \A k \in 1..Len(mv) :
                  /\ md[k].Rank = mv[k].Rank
                  /\ md[k].director_id \in 1..Len(dr)
                  /\ dr[md[k].director_id].Director = mv[k].Director
            /\ \A i \in 1..Len(dr) : \E k \in 1..Len(md) : md[k].director_id = i

\* Two directors, the first directing the first and the third movie.
C7_Witness ==
    /\ pc = "built"
    /\ Len(db["directors"].rows) = 2
    /\ Len(db["movie_directors"].rows) = 3
    /\ db["movie_directors"].rows[1].director_id = 1
    /\ db["movie_directors"].rows[2].director_id = 2
    /\ db["movie_directors"].rows[3].director_id = 1

GenresOf(d) == {d["movie_genres"].rows[i].Genre : i \in 1..Len(d["movie_genres"].rows)}

Q8Sum == SumSeq(Column(out[8].csv.rows, "movie_count"))

\* C8 as stated: query 8 returns exactly 5 rows, whose counts sum to at most
\* the number of rows of movie_genres.
C8_ExactlyFive ==
    pc = "done" =>
        /\ Len(out[8].csv.rows) = 5
        /\ Q8Sum <= Len(db["movie_genres"].rows)

\* C8 as amended: query 8 returns 5 rows when movie_genres holds at least 5
\* distinct genres and one row per distinct genre otherwise, and the counts of
\* its rows sum to at most the number of rows of movie_genres.
C8_AtMostFive ==
    pc = "done" =>
        /\ Len(out[8].csv.rows) = Min(5, Cardinality(GenresOf(db)))
        /\ Q8Sum <= Len(db["movie_genres"].rows)

\* More than 5 genres: 5 rows, and a genre's rows are left out of the sum.
C8_Witness ==
    /\ pc = "done"
    /\ Cardinality(GenresOf(db)) > 5
    /\ Len(out[8].csv.rows) = 5
    /\ Q8Sum < Len(db["movie_genres"].rows)

\* The movies of director x whose revenue is known
Known(x) ==
    {j \in 1..Len(db["movies"].rows) :
        db["movies"].rows[j].Director = x /\ db["movies"].rows[j].Revenue # <<>>}

RECURSIVE SumRevenue(_)
SumRevenue(S) ==
    IF S = {} THEN 0
    ELSE LET j == CHOOSE x \in S : TRUE
         IN  db["movies"].rows[j].Revenue[1] + SumRevenue(S \ {j})

C10_WholeFileOnly == csv.exists => csv = FullFile(remote)

====
